---------------------------- MODULE Spec2Model ----------------------------
(***************************************************************************)
(* A model of jaime's action-tree resolution engine (src/src/runner.rs):   *)
(* Action::run walks a tree of Select / Command nodes, asks a picker at    *)
(* every Select, collects one argument per widget of a Command and finally *)
(* launches the substituted command line in a shell.                       *)
(*                                                                         *)
(* Text is modelled as a sequence of one-character strings, so that        *)
(* str::replace, split(':') and the join/split on newlines are computed    *)
(* the way the code computes them.  An ANSI escape sequence emitted by the *)
(* `colored` crate is one element of such a sequence.                      *)
(***************************************************************************)
EXTENDS Integers, Sequences, FiniteSets, TLC

(***************************************************************************)
(* Option<T>: None is the empty sequence, Some(x) the one-element one.     *)
(***************************************************************************)
None == <<>>

Some(x) == <<x>>

IsSome(o) == Len(o) = 1

Unwrap(o) == o[1]

(***************************************************************************)
(* Text helpers                                                            *)
(***************************************************************************)
NL == "\n"

\* The escape sequences `colored` writes for .green().bold(), .magenta()
\* and the reset that closes every styled string.
ESC_GREEN_BOLD == "ESC[1;32m"

ESC_MAGENTA == "ESC[35m"

ESC_YELLOW == "ESC[33m"

ESC_GREEN == "ESC[32m"

ESC_RESET == "ESC[0m"

AnsiCodes == {ESC_GREEN_BOLD, ESC_MAGENTA, ESC_YELLOW, ESC_GREEN, ESC_RESET}

Digits == <<"0", "1", "2", "3", "4", "5", "6", "7", "8", "9">>

RECURSIVE Decimal(_)
\* format!("{}", i) of a usize
Decimal(i) ==
    IF i < 10 THEN <<Digits[i + 1]>>
    ELSE Decimal(i \div 10) \o <<Digits[(i % 10) + 1]>>

\* Placeholder counting from one: "{i+1}"
PlaceholderOneBased(i) == <<"{">> \o Decimal(i + 1) \o <<"}">>

\* format!("{{{}}}", i): the placeholder text "{i}"
Placeholder(i) == <<"{">> \o Decimal(i) \o <<"}">>

RECURSIVE Replace(_, _, _)
\* str::replace(pat, to): every non-overlapping match of pat, left to right
Replace(s, pat, to) ==
    IF Len(s) < Len(pat) THEN s
    ELSE IF SubSeq(s, 1, Len(pat)) = pat
         THEN to \o Replace(SubSeq(s, Len(pat) + 1, Len(s)), pat, to)
         ELSE <<s[1]>> \o Replace(Tail(s), pat, to)

Contains(s, c) == \E i \in 1..Len(s) : s[i] = c

RECURSIVE SplitFirst(_, _)
\* s.split(c).collect::<Vec<_>>()[0]: the text before the first c
SplitFirst(s, c) ==
    IF Len(s) = 0 \/ s[1] = c THEN <<>>
    ELSE <<s[1]>> \o SplitFirst(Tail(s), c)

RECURSIVE Join(_, _)
\* Vec<String>::join(sep)
Join(lines, sep) ==
    IF Len(lines) = 0 THEN <<>>
    ELSE IF Len(lines) = 1 THEN lines[1]
    ELSE lines[1] \o <<sep>> \o Join(Tail(lines), sep)

\* BufRead::lines / the pickers' reading of their input: one item per line,
\* each ended by a newline or by the end of the text; a trailing newline
\* produces no empty last item
SplitLines(s) ==
    LET ends == {i \in 1..Len(s) : s[i] = NL}
                \cup (IF Len(s) > 0 /\ s[Len(s)] # NL THEN {Len(s) + 1} ELSE {})
    IN  [k \in 1..Cardinality(ends) |->
            LET e == CHOOSE d \in ends : Cardinality({c \in ends : c <= d}) = k
                before == {c \in ends : c < e}
                from == IF before = {} THEN 1
                        ELSE (CHOOSE c \in before : \A b \in before : b <= c) + 1
            IN  SubSeq(s, from, e - 1)]

\* what a picker that parses ANSI (skim with ansi(true), fzf --ansi) outputs:
\* the text without its escape sequences
StripAnsi(s) == SelectSeq(s, LAMBDA c : c \notin AnsiCodes)

\* k.green().bold().to_string() of the `colored` crate
GreenBold(s, colorize) ==
    IF colorize THEN <<ESC_GREEN_BOLD>> \o s \o <<ESC_RESET>> ELSE s

\* k.yellow().to_string()
Yellow(s, colorize) ==
    IF colorize THEN <<ESC_YELLOW>> \o s \o <<ESC_RESET>> ELSE s

\* cmd.green().to_string()
Green(s, colorize) ==
    IF colorize THEN <<ESC_GREEN>> \o s \o <<ESC_RESET>> ELSE s

\* description.magenta().to_string()
Magenta(s, colorize) ==
    IF colorize THEN <<ESC_MAGENTA>> \o s \o <<ESC_RESET>> ELSE s


(***************************************************************************)
(* The configuration tree (runner.rs, Config / Action / Widget)             *)
(***************************************************************************)
\* Widget::FreeText
FreeText == [type |-> "FreeText", command |-> <<>>, preview |-> None]

\* Widget::FromCommand { command, preview }
FromCommand(command, preview) ==
    [type |-> "FromCommand", command |-> command, preview |-> preview]

\* Action::Command { description, command, widgets }.  widgets: None and
\* Some(vec![]) run the same code, both are the empty sequence here.
Command(description, command, widgets) ==
    [type |-> "Command", description |-> description, command |-> command,
     widgets |-> widgets, options |-> <<>>, order |-> <<>>]

\* Action::Select { description, options }.  options is the HashMap, a
\* function from label to child; order is the order in which the labels
\* stand in the configuration document, which the HashMap does not keep.
Select(description, order, options) ==
    [type |-> "Select", description |-> description, command |-> <<>>,
     widgets |-> <<>>, options |-> options, order |-> order]

\* The texts of the sample configurations
T_deploy == <<"d", "e", "p", "l", "o", "y">>

T_echo0 == <<"e", "c", "h", "o", " ", "{", "0", "}">>

T_printf == <<"p", "r", "i", "n", "t", "f", " ", "'", "x", "\\", "n", "y", "\\", "n", "'">>

T_A == <<"A">>

T_B == <<"B">>

T_w == <<"w">>

T_a == <<"a">>

T_a_b == <<"a", ":", "b">>

T_c_d == <<"c", ":", "d">>

T_zz == <<"z", "z">>

T_d_e == <<"d", ":", "e">>

T_x == <<"x">>

T_y == <<"y">>

T_ls == <<"l", "s">>

T_run01 == <<"r", "u", "n", " ", "{", "0", "}", " ", "{", "1", "}">>

T_go013 == <<"g", "o", " ", "{", "0", "}", " ", "{", "1", "}", " ", "{", "3", "}">>

T_cat012 == <<"c", "a", "t", " ", "{", "0", "}", " ", "{", "1", "}", " ", "{", "2", "}">>

\* a preview command with the cursor placeholder {} and the text {0}
T_preview == <<"p", " ", "{", "}", " ", "{", "0", "}">>

T_foo == <<"f", "o", "o">>

T_sh == <<"s", "h">>

T_zsh == <<"z", "s", "h">>

T_bash == <<"b", "a", "s", "h">>

T_fish == <<"f", "i", "s", "h">>

T_bin_zsh == <<"/", "b", "i", "n", "/", "z", "s", "h">>

T_bin_bash == <<"/", "b", "i", "n", "/", "b", "a", "s", "h">>

T_ph1 == <<"{", "1", "}">>

\* spec.md section 8, end to end: one option "deploy" with one FromCommand
CfgDeploy ==
    Select(None, <<T_deploy>>,
        (T_deploy :> Command(None, T_echo0,
                        <<FromCommand(T_printf, None)>>)))

\* a submenu with a description that contains a colon, a Command with a
\* description, one with an empty description and one with none
CfgMenu ==
    Select(None, <<T_A, T_B>>,
        (T_A :> Select(Some(T_d_e), <<T_A, T_B>>,
                    (T_A :> Command(None, T_ls, <<>>)) @@
                    (T_B :> Command(Some(T_x), T_run01,
                                <<FromCommand(T_echo0, None), FreeText>>)))) @@
        (T_B :> Command(Some(<<>>), T_ls, <<>>)))

\* labels that contain a colon
CfgColon ==
    Select(Some(T_x), <<T_a_b, T_a, T_c_d>>,
        (T_a_b :> Command(None, T_x, <<>>)) @@
        (T_a :> Command(None, T_y, <<>>)) @@
        (T_c_d :> Command(Some(T_y), T_ls, <<>>)))

\* three widgets, a template with a placeholder beyond the last argument
CfgWidgets ==
    Select(None, <<T_w>>,
        (T_w :> Command(None, T_go013,
                    <<FreeText, FreeText,
                      FromCommand(T_cat012, Some(T_preview))>>)))

Configs == {CfgDeploy, CfgMenu, CfgColon, CfgWidgets}

\* values of --command
Commands == {T_deploy, T_A, T_B, T_w, T_a_b, T_c_d, T_zz}

\* what a user types at a FreeText prompt
PromptAnswers == {T_foo, T_ph1, <<>>}

\* the lines a FromCommand's shell command may print
OutputLines == {T_x, T_y, T_ph1}

\* values of Config.shell (shell: in the configuration)
ConfigShells == {None, Some(T_zsh), Some(T_bash), Some(T_fish)}

\* values of the SHELL environment variable
EnvShells == {None, Some(T_bin_zsh), Some(T_bin_bash), Some(T_zsh)}

\* the largest number of lines of one captured output
MaxLines == 2

\* the hash seeds of the process (RandomState) are 0..MaxSeed
MaxSeed == 2


(***************************************************************************)
(* The state of one process                                                *)
(***************************************************************************)
VARIABLES
    config,            \* the root Select, Config::into_action
    handler,           \* the parsed command line (app.rs, Handler)
    hashSeed,          \* the process's HashMap seed: fixes options.keys()
    colorize,          \* whether `colored` emits escape sequences
    config_shell,      \* Config.shell: Option<String>
    env_SHELL,         \* env::var("SHELL"), None when unset
    skim_args,         \* SKIM_DEFAULT_OPTIONS split into tokens, <<>> when unset
    is_abort,          \* whether the user aborted the last picker call
    backends,          \* the function each picker call so far went to
    NUM_RUNS,          \* static NUM_RUNS: AtomicUsize
    stack,             \* the active calls of Action::run, innermost last
    pc,                \* where the innermost call stands
    selected_command,  \* the Option<String> a Select obtained
    args,              \* the Argument List of the Command being run
    index,             \* the widget loop's index
    output,            \* the captured output of the current FromCommand
    result,            \* the Result a finished call returns
    exit_code,         \* the process's exit code, -1 while it runs
    log                \* every picker, prompt and shell call made so far

vars == <<config, handler, hashSeed, colorize, config_shell, env_SHELL,
          skim_args, is_abort, backends, NUM_RUNS, stack, pc, selected_command, args, index,
          output, result, exit_code, log>>

environment == <<config, handler, hashSeed, colorize, config_shell, env_SHELL,
                 skim_args>>

self == stack[Len(stack)]

RECURSIVE NthPermutation(_, _)
\* the n-th permutation of a sequence: the iteration order of a HashMap
\* holding these keys, under the n-th hash seed
NthPermutation(s, n) ==
    IF Len(s) = 0 THEN <<>>
    ELSE LET i == (n % Len(s)) + 1
             rest == SubSeq(s, 1, i - 1) \o SubSeq(s, i + 1, Len(s))
         IN  <<s[i]>> \o NthPermutation(rest, n \div Len(s))

\* options.keys(): every key once, in the HashMap's own order
Keys(node) == NthPermutation(node.order, hashSeed)

\* options.get(k)
Get(options, k) == IF k \in DOMAIN options THEN Some(options[k]) ELSE None

RECURSIVE Terminated(_)
\* the text of an output made of these lines, each ended by a newline
Terminated(lines) ==
    IF Len(lines) = 0 THEN <<>>
    ELSE lines[1] \o <<NL>> \o Terminated(Tail(lines))

\* the texts a captured command may print
CapturedOutputs ==
    { Terminated(ls) : ls \in UNION { [1..n -> OutputLines] : n \in 0..MaxLines } }

\* the texts display_selector looks for in the tokens
O_margin == <<"-", "-", "m", "a", "r", "g", "i", "n">>

O_height == <<"-", "-", "h", "e", "i", "g", "h", "t">>

O_layout == <<"-", "-", "l", "a", "y", "o", "u", "t">>

O_color == <<"-", "-", "c", "o", "l", "o", "r">>

O_bind == <<"-", "-", "b", "i", "n", "d">>

O_reverse == <<"-", "-", "r", "e", "v", "e", "r", "s", "e">>

O_tac == <<"-", "-", "t", "a", "c">>

O_no_sort == <<"-", "-", "n", "o", "-", "s", "o", "r", "t">>

O_inline_info == <<"-", "-", "i", "n", "l", "i", "n", "e", "-", "i", "n", "f", "o">>

O_braces == <<"{", "}">>

O_preview == <<"-", "-", "p", "r", "e", "v", "i", "e", "w">>

\* default_height
T_50pc == <<"5", "0", "%">>

\* default_margin
T_0pc == <<"0", "%">>

\* default_layout
T_default == <<"d", "e", "f", "a", "u", "l", "t">>

\* values and tokens of SKIM_DEFAULT_OPTIONS
T_40pc == <<"4", "0", "%">>

T_height_40pc == <<"-", "-", "h", "e", "i", "g", "h", "t", "=", "4", "0", "%">>

T_dark == <<"d", "a", "r", "k">>

T_bat_color == <<"b", "a", "t", " ", "-", "-", "c", "o", "l", "o", "r", "=", "a", "l", "w", "a", "y", "s", " ", "{", "}">>

T_ls_reverse == <<"l", "s", " ", "-", "-", "r", "e", "v", "e", "r", "s", "e", " ", "{", "}">>

T_ctrl_a == <<"c", "t", "r", "l", "-", "a", ":", "s", "e", "l", "e", "c", "t", "-", "a", "l", "l">>

\* default_theme: skim's built-in colours, one token here
T_default_theme == <<"matched:108,matched_bg:0,current:254,current_bg:236,current_match:151,current_match_bg:236,spinner:148,info:144,prompt:110,cursor:161,selected:168,header:109,border:59">>

\* the token lists SKIM_DEFAULT_OPTIONS is split into
OptionStrings ==
    { <<>>,
      <<O_reverse>>,
      <<O_height, T_40pc>>,
      <<T_height_40pc, O_tac>>,
      <<O_height>>,
      <<O_margin, T_0pc, O_no_sort>>,
      <<O_tac, O_margin>>,
      <<O_layout, O_reverse>>,
      <<O_inline_info, O_layout>>,
      <<O_color, T_dark, O_inline_info>>,
      <<O_no_sort, O_color>>,
      <<O_bind, T_ctrl_a>>,
      <<O_preview, T_ls_reverse>>,
      <<O_preview, T_bat_color, O_reverse>>,
      <<O_preview, T_bat_color>> }

\* str::contains(pat)
ContainsText(s, pat) ==
    \E i \in 1..(Len(s) - Len(pat) + 1) : SubSeq(s, i, i + Len(pat) - 1) = pat

\* Iterator::position / find: the first of the indices whose token
\* satisfies the closure, 0 when there is none
FirstIndex(hits) ==
    IF hits = {} THEN 0 ELSE CHOOSE i \in hits : \A j \in hits : i <= j

\* an index past the end of skim_args: the thread panics
OutOfBounds == <<"index out of bounds">>

\* margin, height, layout: the first token that contains the option's text
\* and is not the option itself; else the token after the first token that
\* contains it (skim_args[pos + 1]); else the default
OptionValue(tokens, opt, default) ==
    LET IsValue(arg) == ContainsText(arg, opt) /\ arg # opt
        IsOption(arg) == ContainsText(arg, opt)
        found == FirstIndex({i \in 1..Len(tokens) : IsValue(tokens[i])})
        pos == FirstIndex({i \in 1..Len(tokens) : IsOption(tokens[i])})
    IN  IF found # 0 THEN tokens[found]
        ELSE IF pos = 0 THEN default
        ELSE IF pos + 1 <= Len(tokens) THEN tokens[pos + 1]
        ELSE OutOfBounds

\* color: as OptionValue, with the tokens that contain {} left out of the
\* first search only
ColorValue(tokens, default) ==
    LET IsValue(arg) == ContainsText(arg, O_color) /\ arg # O_color
                        /\ ~ContainsText(arg, O_braces)
        IsOption(arg) == ContainsText(arg, O_color)
        found == FirstIndex({i \in 1..Len(tokens) : IsValue(tokens[i])})
        pos == FirstIndex({i \in 1..Len(tokens) : IsOption(tokens[i])})
    IN  IF found # 0 THEN tokens[found]
        ELSE IF pos = 0 THEN default
        ELSE IF pos + 1 <= Len(tokens) THEN tokens[pos + 1]
        ELSE OutOfBounds

\* reverse, tac, nosort, inline_info: skim_args.iter().any(|arg| arg.contains(..))
Toggle(tokens, opt) == \E i \in 1..Len(tokens) : ContainsText(tokens[i], opt)

\* SkimOptionsBuilder::default()....build(): the options of the embedded
\* picker derived from the tokens
SkimOptions(tokens, preview) ==
    [preview |-> preview,
     margin |-> OptionValue(tokens, O_margin, T_0pc),
     height |-> OptionValue(tokens, O_height, T_50pc),
     layout |-> OptionValue(tokens, O_layout, T_default),
     color |-> ColorValue(tokens, T_default_theme),
     bind |-> SelectSeq(tokens, LAMBDA arg : ContainsText(arg, O_bind)),
     reverse |-> Toggle(tokens, O_reverse),
     tac |-> Toggle(tokens, O_tac),
     nosort |-> Toggle(tokens, O_no_sort),
     inline_info |-> Toggle(tokens, O_inline_info),
     multi |-> FALSE]

\* the derivation indexed past the end of skim_args
OptionsPanic(tokens) ==
    OutOfBounds \in {OptionValue(tokens, O_margin, T_0pc),
                     OptionValue(tokens, O_height, T_50pc),
                     OptionValue(tokens, O_layout, T_default),
                     ColorValue(tokens, T_default_theme)}

\* Shell with SHELL consulted before the configuration
ShellEnvFirst ==
    IF IsSome(env_SHELL) THEN Unwrap(env_SHELL)
    ELSE IF IsSome(config_shell) THEN Unwrap(config_shell)
    ELSE T_sh

\* let shell = &config.shell.as_ref().map_or(
\*     env::var("SHELL").unwrap_or_else(|_| "sh".to_string()), ToOwned::to_owned)
Shell ==
    IF IsSome(config_shell) THEN Unwrap(config_shell)
    ELSE IF IsSome(env_SHELL) THEN Unwrap(env_SHELL)
    ELSE T_sh

\* no arguments before -c
NoArgs == <<>>

\* run_shell: Command::new(shell), the arguments added before -c, then
\* .arg("-c").arg(cmd)
RunShellArgv(shell, cmd) ==
    [program |-> shell,
     flags |-> IF shell = T_zsh THEN <<"--shwordsplit", "--no-unset", "--errexit">>
               ELSE IF shell = T_bash THEN <<"-e", "-u">>
               ELSE NoArgs,
     c |-> cmd]

\* run_shell_command_for_output: the same construction, for the capture
CaptureArgv(shell, cmd) ==
    [program |-> shell,
     flags |-> IF shell = T_zsh THEN <<"--shwordsplit", "--no-unset", "--errexit">>
               ELSE IF shell = T_bash THEN <<"-e", "-u">>
               ELSE NoArgs,
     c |-> cmd]

\* one entry of the log; a shell call is logged with the process it spawns,
\* a call of the embedded picker with the options derived for it
Event(kind, text, preview, outcome, value) ==
    [kind |-> kind, depth |-> Len(stack) - 1, runs |-> NUM_RUNS,
     step |-> index, text |-> text, preview |-> preview,
     outcome |-> outcome, value |-> value,
     argv |-> IF kind = "run_shell" THEN RunShellArgv(Shell, text)
              ELSE IF kind = "capture" THEN CaptureArgv(Shell, text)
              ELSE [program |-> <<>>, flags |-> NoArgs, c |-> <<>>],
     options |-> IF kind \in {"select_picker", "widget_picker"}
                    /\ ~handler.fzf /\ ~handler.skim
                 THEN <<SkimOptions(skim_args, preview)>>
                 ELSE <<>>]


(***************************************************************************)
(* The collaborators: pickers, prompt, shell                               *)
(***************************************************************************)

\* the exit code of the library variant on abort: std::process::exit(1)
EXIT_ABORT_LIB == 1

\* process::exit(130) on a user abort in the embedded picker
EXIT_ABORT == 130

\* process::exit(1) on an invalid --command
EXIT_INVALID == 1

\* process::exit(1) of main on an Err
EXIT_ERROR == 1

\* the exit code of a Rust process that panics (the expect(..) calls)
EXIT_PANIC == 101

Outcome(outcome, value) == [outcome |-> outcome, value |-> value]

\* what a picker call comes to, and whether the user aborted it (skim's
\* out.is_abort, the exit status 130 of fzf and sk)
PickerOutcome(outcome, value, aborted) ==
    [outcome |-> outcome, value |-> value, is_abort |-> aborted]

\* display_selector without the exit on is_abort: the abort is no selected
\* item, None
display_selector_abort_is_none(input, preview) ==
    LET items == SplitLines(input)
    IN  {PickerOutcome("none", <<>>, TRUE), PickerOutcome("none", <<>>, FALSE)}
        \cup {PickerOutcome("some", StripAnsi(items[i]), FALSE) : i \in 1..Len(items)}

\* display_selector: the embedded skim library.  The items are read with
\* ansi(true), so a selected item is output without its escape sequences;
\* is_abort ends the process; no selected item is None.
display_selector(input, preview) ==
    LET items == SplitLines(input)
    IN  IF OptionsPanic(skim_args) THEN {PickerOutcome("panic", <<>>, FALSE)}
        ELSE {PickerOutcome("abort", <<>>, TRUE), PickerOutcome("none", <<>>, FALSE)}
             \cup {PickerOutcome("some", StripAnsi(items[i]), FALSE) : i \in 1..Len(items)}

\* what an external picker binary does with the input it is fed: spawning
\* may fail (expect panics), a non-zero exit status (no match, or the user's
\* abort) is None, and otherwise
\* stdout is a line, as fed or (under the binary's --ansi option, taken
\* from the binary's own option variable) without its escape sequences.
ExternalPicker(input, preview) ==
    LET items == SplitLines(input)
    IN  {PickerOutcome("panic", <<>>, FALSE),
         PickerOutcome("none", <<>>, FALSE), PickerOutcome("none", <<>>, TRUE)}
        \cup {PickerOutcome("some", items[i], FALSE) : i \in 1..Len(items)}
        \cup {PickerOutcome("some", StripAnsi(items[i]), FALSE) : i \in 1..Len(items)}

\* display_selector_fzf: the fzf binary
display_selector_fzf(input, preview) == ExternalPicker(input, preview)

\* display_selector_skim: the sk binary
display_selector_skim(input, preview) == ExternalPicker(input, preview)

\* the outcomes of a call of the function f
Via(f, outcomes) ==
    {[outcome |-> o.outcome, value |-> o.value, is_abort |-> o.is_abort,
      backend |-> f] : o \in outcomes}

\* PickerOfWidget with the skim-binary flag tested before the fzf flag
PickerOfWidgetSkimFirst(input, preview) ==
    IF handler.skim THEN Via("display_selector_skim", display_selector_skim(input, preview))
    ELSE IF handler.fzf THEN Via("display_selector_fzf", display_selector_fzf(input, preview))
    ELSE Via("display_selector", display_selector(input, preview))

\* the if handler.fzf() / else if handler.skim() / else chain of a
\* FromCommand widget
PickerOfWidget(input, preview) ==
    IF handler.fzf THEN Via("display_selector_fzf", display_selector_fzf(input, preview))
    ELSE IF handler.skim THEN Via("display_selector_skim", display_selector_skim(input, preview))
    ELSE Via("display_selector", display_selector(input, preview))

\* the if handler.fzf() / else if handler.skim() / else chain of a Select
Picker(input, preview) ==
    IF handler.fzf THEN Via("display_selector_fzf", display_selector_fzf(input, preview))
    ELSE IF handler.skim THEN Via("display_selector_skim", display_selector_skim(input, preview))
    ELSE Via("display_selector", display_selector(input, preview))

\* readline(): a line, or Interrupted, or EOF, or another ReadlineError
readline ==
    {Outcome("ok", a) : a \in PromptAnswers}
    \cup {Outcome("Interrupted", <<>>), Outcome("EOF", <<>>),
          Outcome("ReadlineError", <<>>)}

\* run_shell_command_for_output: the spawn may fail, the bytes may not be
\* UTF-8, otherwise the captured text
run_shell_command_for_output(cmd) ==
    {Outcome("ok", o) : o \in CapturedOutputs}
    \cup {Outcome("SpawnFailure", <<>>), Outcome("DecodeFailure", <<>>)}

\* run_shell: the spawn may fail; any exit status of the child is Ok(())
run_shell(cmd) ==
    {Outcome("ok", <<st>>) : st \in {0, 1}} \cup {Outcome("SpawnFailure", <<>>)}

(***************************************************************************)
(* Action::run                                                             *)
(***************************************************************************)
RECURSIVE SubstituteFrom(_, _, _, _)
SubstituteFrom(command, as, i, n) ==
    IF i >= n \/ i >= Len(as) THEN command
    ELSE SubstituteFrom(Replace(command, Placeholder(i), as[i + 1]), as, i + 1, n)

\* for (i, arg) in args.iter().enumerate().take(n) {
\*     command = command.replace(&format!("{{{}}}", i), arg) }
SubstituteArgs(command, as, n) == SubstituteFrom(command, as, 0, n)

\* the candidate entry of child k of a Select
Entry(options, k) ==
    IF IsSome(options[k].description)
    THEN GreenBold(k, colorize) \o <<":", " ">>
         \o Magenta(Unwrap(options[k].description), colorize)
    ELSE GreenBold(k, colorize)

\* input: the entries of options.keys(), joined by newlines
SelectInput(node) ==
    LET keys == Keys(node)
    IN  Join([i \in 1..Len(keys) |-> Entry(node.options, keys[i])], NL)

RECURSIVE AvailFold(_)
\* options.keys().fold(String::new(), |acc, k| acc + k.yellow() + ", ")
AvailFold(keys) ==
    IF Len(keys) = 0 THEN <<>>
    ELSE Yellow(keys[1], colorize) \o <<",", " ">> \o AvailFold(Tail(keys))

\* Avail without the strip_suffix: the folded text as it is
AvailUnstripped(node) == AvailFold(Keys(node))

\* avail.strip_suffix(", ").map_or(avail.clone(), ToString::to_string)
Avail(node) ==
    LET avail == AvailFold(Keys(node))
        n == Len(avail)
    IN  IF n >= 2 /\ SubSeq(avail, n - 1, n) = <<",", " ">>
        THEN SubSeq(avail, 1, n - 2) ELSE avail

\* RecoverKey without the split: the selected text itself is the key
RecoverKeyWhole(selected) == selected

\* RecoverKey splitting on the last colon of the selected line
RecoverKeyLastColon(selected) ==
    LET colons == {i \in 1..Len(selected) : selected[i] = ":"}
    IN  IF colons = {} THEN selected
        ELSE SubSeq(selected, 1, (CHOOSE i \in colons : \A j \in colons : j <= i) - 1)

\* the key looked up for a selected line: the text before its first colon
RecoverKey(selected) ==
    IF Contains(selected, ":") THEN SplitFirst(selected, ":") ELSE selected

has_command == IsSome(handler.command)

\* PreselectionApplies without the NUM_RUNS gate
PreselectionAlways == has_command

\* handler.has_command() && NUM_RUNS.load(Ordering::Relaxed) == 0
PreselectionApplies == has_command /\ NUM_RUNS = 0

Handlers ==
    [command : {None} \cup {Some(c) : c \in Commands},
     fzf : BOOLEAN, skim : BOOLEAN]

\* the state of the process when main starts
Start ==
    /\ is_abort = FALSE
    /\ backends = <<>>
    /\ NUM_RUNS = 0
    /\ stack = <<>>
    /\ pc = "main"
    /\ selected_command = None
    /\ args = <<>>
    /\ index = 0
    /\ output = <<>>
    /\ result = "none"
    /\ exit_code = -1
    /\ log = <<>>

\* every configuration, command line, hash seed and colour setting, with
\* no shell configured and SHELL unset
Init ==
    /\ config \in Configs
    /\ handler \in Handlers
    /\ hashSeed \in 0..MaxSeed
    /\ colorize \in BOOLEAN
    /\ config_shell = None
    /\ env_SHELL = None
    /\ skim_args = <<>>
    /\ Start

\* every token list of SKIM_DEFAULT_OPTIONS, for two configurations and the
\* embedded picker
InitOptions ==
    /\ config \in {CfgDeploy, CfgMenu}
    /\ handler \in {h \in Handlers : h.command \in {None, Some(T_A)} /\ ~h.fzf /\ ~h.skim}
    /\ hashSeed = 0
    /\ colorize = FALSE
    /\ config_shell = None
    /\ env_SHELL = None
    /\ skim_args \in OptionStrings
    /\ Start

\* the one-entry menu and the menu of depth 2, every back-end, without and
\* with a --command, for one hash seed and without colours
InitLive ==
    /\ config \in {CfgDeploy, CfgMenu}
    /\ handler \in {h \in Handlers : h.command \in {None, Some(T_A)}}
    /\ hashSeed = 0
    /\ colorize = FALSE
    /\ config_shell = None
    /\ env_SHELL = None
    /\ skim_args = <<>>
    /\ Start

\* every shell setting, for two configurations and the embedded picker
InitShell ==
    /\ config \in {CfgDeploy, CfgMenu}
    /\ handler \in {h \in Handlers : h.command \in {None, Some(T_A)} /\ ~h.fzf /\ ~h.skim}
    /\ hashSeed = 0
    /\ colorize = FALSE
    /\ config_shell \in ConfigShells
    /\ env_SHELL \in EnvShells
    /\ skim_args = <<>>
    /\ Start

\* process::exit(code)
Exit(code) == pc' = "exit" /\ exit_code' = code

\* return r from the innermost call
Finish(r) == pc' = "return" /\ result' = r

\* main: action.run(..) on the root
Main ==
    /\ pc = "main"
    /\ stack' = <<config>>
    /\ pc' = "run"
    /\ UNCHANGED <<environment, is_abort, backends, NUM_RUNS, selected_command, args, index,
                   output, result, exit_code, log>>

\* SelectPreselection falling back to the picker, silently, when --command
\* names no child
SelectPreselectionFallback ==
    /\ pc = "run" /\ self.type = "Select"
    /\ PreselectionApplies
    /\ LET cmd == Unwrap(handler.command)
           keys == Keys(self)
       IN  IF \E i \in 1..Len(keys) : keys[i] = cmd
           THEN /\ selected_command' = Some(cmd)
                /\ UNCHANGED <<is_abort, backends>>
                /\ log' = Append(log, Event("preselection", <<>>, None, "some", cmd))
           ELSE \E o \in {p \in Picker(SelectInput(self), None) :
                                p.outcome \in {"none", "some"}} :
                /\ is_abort' = o.is_abort
                /\ backends' = Append(backends, o.backend)
                /\ selected_command' = IF o.outcome = "some" THEN Some(o.value) ELSE None
                /\ log' = Append(log,
                        Event("select_picker", SelectInput(self), None, o.outcome, o.value))
    /\ pc' = "dispatch"
    /\ UNCHANGED <<environment, NUM_RUNS, stack, args, index, output, result,
                   exit_code>>

\* a Select with a --command, before any recursion
SelectPreselection ==
    /\ pc = "run" /\ self.type = "Select"
    /\ PreselectionApplies
    /\ LET cmd == Unwrap(handler.command)
           keys == Keys(self)
       IN  IF \E i \in 1..Len(keys) : keys[i] = cmd
           THEN /\ selected_command' = Some(cmd)
                /\ pc' = "dispatch"
                /\ log' = Append(log, Event("preselection", <<>>, None, "some", cmd))
                /\ UNCHANGED exit_code
           ELSE /\ log' = Append(log,
                        Event("jaime_error", Avail(self), None, "invalid", cmd))
                /\ Exit(EXIT_INVALID)
                /\ UNCHANGED selected_command
    /\ UNCHANGED <<environment, is_abort, backends, NUM_RUNS, stack, args, index, output, result>>

\* a Select that asks the picker
SelectPicker ==
    /\ pc = "run" /\ self.type = "Select"
    /\ ~PreselectionApplies
    /\ \E o \in Picker(SelectInput(self), None) :
        /\ is_abort' = o.is_abort
        /\ backends' = Append(backends, o.backend)
        /\ log' = Append(log,
                Event("select_picker", SelectInput(self), None, o.outcome, o.value))
        /\ CASE o.outcome = "abort" ->
                    Exit(EXIT_ABORT) /\ UNCHANGED selected_command
             [] o.outcome = "panic" ->
                    Exit(EXIT_PANIC) /\ UNCHANGED selected_command
             [] o.outcome = "none" ->
                    /\ selected_command' = None
                    /\ pc' = "dispatch"
                    /\ UNCHANGED exit_code
             [] o.outcome = "some" ->
                    /\ selected_command' = Some(o.value)
                    /\ pc' = "dispatch"
                    /\ UNCHANGED exit_code
    /\ UNCHANGED <<environment, NUM_RUNS, stack, args, index, output, result>>

\* SelectDispatch asking the picker again when nothing was selected
\* (a loop around the picker instead of map_or(Ok(()), ..))
SelectDispatchAsksAgain ==
    /\ pc = "dispatch"
    /\ IF IsSome(selected_command)
       THEN LET widget == Get(self.options, RecoverKey(Unwrap(selected_command)))
            IN  IF IsSome(widget)
                THEN /\ NUM_RUNS' = NUM_RUNS + 1
                     /\ stack' = Append(stack, Unwrap(widget))
                     /\ pc' = "run"
                     /\ UNCHANGED result
                ELSE /\ Finish("Ok")
                     /\ UNCHANGED <<NUM_RUNS, stack>>
       ELSE /\ pc' = "run"
            /\ UNCHANGED <<NUM_RUNS, stack, result>>
    /\ selected_command' = None
    /\ UNCHANGED <<environment, is_abort, backends, args, index, output, exit_code, log>>

\* SelectDispatch treating a missing selection as an error
\* (ok_or(..)? instead of map_or(Ok(()), ..))
SelectDispatchNoneIsError ==
    /\ pc = "dispatch"
    /\ IF IsSome(selected_command)
       THEN LET widget == Get(self.options, RecoverKey(Unwrap(selected_command)))
            IN  IF IsSome(widget)
                THEN /\ NUM_RUNS' = NUM_RUNS + 1
                     /\ stack' = Append(stack, Unwrap(widget))
                     /\ pc' = "run"
                     /\ UNCHANGED result
                ELSE /\ Finish("Ok")
                     /\ UNCHANGED <<NUM_RUNS, stack>>
       ELSE /\ Finish("Cancelled")
            /\ UNCHANGED <<NUM_RUNS, stack>>
    /\ selected_command' = None
    /\ UNCHANGED <<environment, is_abort, backends, args, index, output, exit_code, log>>

\* selected_command.map_or(Ok(()), |s| match options.get(key) { .. })
SelectDispatch ==
    /\ pc = "dispatch"
    /\ IF IsSome(selected_command)
       THEN LET widget == Get(self.options, RecoverKey(Unwrap(selected_command)))
            IN  IF IsSome(widget)
                THEN /\ NUM_RUNS' = NUM_RUNS + 1
                     /\ stack' = Append(stack, Unwrap(widget))
                     /\ pc' = "run"
                     /\ UNCHANGED result
                ELSE /\ Finish("Ok")
                     /\ UNCHANGED <<NUM_RUNS, stack>>
       ELSE /\ Finish("Ok")
            /\ UNCHANGED <<NUM_RUNS, stack>>
    /\ selected_command' = None
    /\ UNCHANGED <<environment, is_abort, backends, args, index, output, exit_code, log>>

\* a Command: let mut args = Vec::new(), then the widget loop
CommandBegin ==
    /\ pc = "run" /\ self.type = "Command"
    /\ args' = <<>>
    /\ index' = 0
    /\ pc' = "widget"
    /\ UNCHANGED <<environment, is_abort, backends, NUM_RUNS, stack, selected_command, output,
                   result, exit_code, log>>

\* WidgetFreeText with an empty answer left out of the argument list
\* (if !line.is_empty() { args.push(line) })
WidgetFreeTextSkipsEmpty ==
    /\ pc = "widget" /\ index < Len(self.widgets)
    /\ self.widgets[index + 1].type = "FreeText"
    /\ \E r \in readline :
        /\ log' = Append(log, Event("prompt", <<>>, None, r.outcome, r.value))
        /\ IF r.outcome = "ok"
           THEN /\ args' = IF r.value = <<>> THEN args ELSE Append(args, r.value)
                /\ index' = index + 1
                /\ UNCHANGED <<pc, result>>
           ELSE /\ Finish(r.outcome)
                /\ UNCHANGED <<args, index>>
    /\ UNCHANGED <<environment, is_abort, backends, NUM_RUNS, stack, selected_command, output,
                   exit_code>>

\* WidgetFreeText taking a failed prompt for an empty line
\* (readline().unwrap_or_default() instead of readline()?)
WidgetFreeTextEmptyOnError ==
    /\ pc = "widget" /\ index < Len(self.widgets)
    /\ self.widgets[index + 1].type = "FreeText"
    /\ \E r \in readline :
        /\ log' = Append(log, Event("prompt", <<>>, None, r.outcome, r.value))
        /\ args' = Append(args, r.value)
        /\ index' = index + 1
        /\ UNCHANGED <<pc, result>>
    /\ UNCHANGED <<environment, is_abort, backends, NUM_RUNS, stack, selected_command, output,
                   exit_code>>

\* Widget::FreeText: args.push(readline()?)
WidgetFreeText ==
    /\ pc = "widget" /\ index < Len(self.widgets)
    /\ self.widgets[index + 1].type = "FreeText"
    /\ \E r \in readline :
        /\ log' = Append(log, Event("prompt", <<>>, None, r.outcome, r.value))
        /\ IF r.outcome = "ok"
           THEN /\ args' = Append(args, r.value)
                /\ index' = index + 1
                /\ UNCHANGED <<pc, result>>
           ELSE /\ Finish(r.outcome)
                /\ UNCHANGED <<args, index>>
    /\ UNCHANGED <<environment, is_abort, backends, NUM_RUNS, stack, selected_command, output,
                   exit_code>>

\* WidgetCapture taking an output that cannot be decoded for an empty one
\* (unwrap_or_default() after from_utf8 instead of ?)
WidgetCaptureEmptyOnDecodeFailure ==
    /\ pc = "widget" /\ index < Len(self.widgets)
    /\ self.widgets[index + 1].type = "FromCommand"
    /\ LET command == SubstituteArgs(self.widgets[index + 1].command, args, index)
       IN  \E r \in run_shell_command_for_output(command) :
            /\ log' = Append(log, Event("capture", command, None, r.outcome, r.value))
            /\ IF r.outcome \in {"ok", "DecodeFailure"}
               THEN /\ output' = r.value
                    /\ pc' = "pick"
                    /\ UNCHANGED result
               ELSE /\ Finish(r.outcome)
                    /\ UNCHANGED output
    /\ UNCHANGED <<environment, is_abort, backends, NUM_RUNS, stack, selected_command, args, index,
                   exit_code>>

\* Widget::FromCommand: substitute the earlier arguments, capture the output
WidgetCapture ==
    /\ pc = "widget" /\ index < Len(self.widgets)
    /\ self.widgets[index + 1].type = "FromCommand"
    /\ LET command == SubstituteArgs(self.widgets[index + 1].command, args, index)
       IN  \E r \in run_shell_command_for_output(command) :
            /\ log' = Append(log, Event("capture", command, None, r.outcome, r.value))
            /\ IF r.outcome = "ok"
               THEN /\ output' = r.value
                    /\ pc' = "pick"
                    /\ UNCHANGED result
               ELSE /\ Finish(r.outcome)
                    /\ UNCHANGED output
    /\ UNCHANGED <<environment, is_abort, backends, NUM_RUNS, stack, selected_command, args, index,
                   exit_code>>

\* WidgetPicker with the collected arguments substituted into the preview
\* as they are into the widget's command
WidgetPickerSubstitutesPreview ==
    /\ pc = "pick"
    /\ LET configured == self.widgets[index + 1].preview
           preview == IF IsSome(configured)
                      THEN Some(SubstituteArgs(Unwrap(configured), args, index))
                      ELSE None
       IN  \E o \in PickerOfWidget(output, preview) :
            /\ is_abort' = o.is_abort
            /\ backends' = Append(backends, o.backend)
            /\ log' = Append(log,
                    Event("widget_picker", output, preview, o.outcome, o.value))
            /\ CASE o.outcome = "abort" ->
                        Exit(EXIT_ABORT) /\ UNCHANGED <<args, index, result>>
                 [] o.outcome = "panic" ->
                        Exit(EXIT_PANIC) /\ UNCHANGED <<args, index, result>>
                 [] o.outcome = "none" ->
                        Finish("Ok") /\ UNCHANGED <<args, index, exit_code>>
                 [] o.outcome = "some" ->
                        /\ args' = Append(args, o.value)
                        /\ index' = index + 1
                        /\ pc' = "widget"
                        /\ UNCHANGED <<result, exit_code>>
    /\ output' = <<>>
    /\ UNCHANGED <<environment, NUM_RUNS, stack, selected_command>>

\* WidgetPicker taking a missing selection for an empty argument
\* (unwrap_or_default instead of the early return)
WidgetPickerNoReturn ==
    /\ pc = "pick"
    /\ LET preview == self.widgets[index + 1].preview
       IN  \E o \in PickerOfWidget(output, preview) :
            /\ is_abort' = o.is_abort
            /\ backends' = Append(backends, o.backend)
            /\ log' = Append(log,
                    Event("widget_picker", output, preview, o.outcome, o.value))
            /\ CASE o.outcome = "abort" ->
                        Exit(EXIT_ABORT) /\ UNCHANGED <<args, index, result>>
                 [] o.outcome = "panic" ->
                        Exit(EXIT_PANIC) /\ UNCHANGED <<args, index, result>>
                 [] o.outcome \in {"none", "some"} ->
                        /\ args' = Append(args, o.value)
                        /\ index' = index + 1
                        /\ pc' = "widget"
                        /\ UNCHANGED <<result, exit_code>>
    /\ output' = <<>>
    /\ UNCHANGED <<environment, NUM_RUNS, stack, selected_command>>

\* Widget::FromCommand: the picker over the captured output
WidgetPicker ==
    /\ pc = "pick"
    /\ LET preview == self.widgets[index + 1].preview
       IN  \E o \in PickerOfWidget(output, preview) :
            /\ is_abort' = o.is_abort
            /\ backends' = Append(backends, o.backend)
            /\ log' = Append(log,
                    Event("widget_picker", output, preview, o.outcome, o.value))
            /\ CASE o.outcome = "abort" ->
                        Exit(EXIT_ABORT) /\ UNCHANGED <<args, index, result>>
                 [] o.outcome = "panic" ->
                        Exit(EXIT_PANIC) /\ UNCHANGED <<args, index, result>>
                 [] o.outcome = "none" ->
                        Finish("Ok") /\ UNCHANGED <<args, index, exit_code>>
                 [] o.outcome = "some" ->
                        /\ args' = Append(args, o.value)
                        /\ index' = index + 1
                        /\ pc' = "widget"
                        /\ UNCHANGED <<result, exit_code>>
    /\ output' = <<>>
    /\ UNCHANGED <<environment, NUM_RUNS, stack, selected_command>>

\* CommandRunShell reached from inside the widget loop: the launch does not
\* wait for the last widget
CommandRunShellEarly ==
    /\ pc = "widget" /\ index <= Len(self.widgets)
    /\ LET command == SubstituteArgs(self.command, args, Len(args))
       IN  \E r \in run_shell(command) :
            /\ log' = Append(log, Event("run_shell", command, None, r.outcome, r.value))
            /\ Finish(IF r.outcome = "ok" THEN "Ok" ELSE r.outcome)
    /\ UNCHANGED <<environment, is_abort, backends, NUM_RUNS, stack, selected_command, args, index,
                   output, exit_code>>

\* CommandRunShell with the launch repeated: the command line is run once
\* more after it has run
CommandRunShellTwice ==
    /\ pc = "widget" /\ index = Len(self.widgets)
    /\ LET command == SubstituteArgs(self.command, args, Len(args))
       IN  \E r \in run_shell(command) :
            /\ log' = log \o << Event("run_shell", command, None, r.outcome, r.value),
                                Event("run_shell", command, None, r.outcome, r.value) >>
            /\ Finish(IF r.outcome = "ok" THEN "Ok" ELSE r.outcome)
    /\ UNCHANGED <<environment, is_abort, backends, NUM_RUNS, stack, selected_command, args, index,
                   output, exit_code>>

\* CommandRunShell with the child's exit status checked: a status other
\* than 0 is an error (status.success() required after .status()?)
CommandRunShellChecksStatus ==
    /\ pc = "widget" /\ index = Len(self.widgets)
    /\ LET command == SubstituteArgs(self.command, args, Len(args))
       IN  \E r \in run_shell(command) :
            /\ log' = Append(log, Event("run_shell", command, None, r.outcome, r.value))
            /\ Finish(IF r.outcome = "ok"
                      THEN IF r.value = <<0>> THEN "Ok" ELSE "ExitStatus"
                      ELSE r.outcome)
    /\ UNCHANGED <<environment, is_abort, backends, NUM_RUNS, stack, selected_command, args, index,
                   output, exit_code>>

\* after the loop: substitute every collected argument, run_shell
CommandRunShell ==
    /\ pc = "widget" /\ index = Len(self.widgets)
    /\ LET command == SubstituteArgs(self.command, args, Len(args))
       IN  \E r \in run_shell(command) :
            /\ log' = Append(log, Event("run_shell", command, None, r.outcome, r.value))
            /\ Finish(IF r.outcome = "ok" THEN "Ok" ELSE r.outcome)
    /\ UNCHANGED <<environment, is_abort, backends, NUM_RUNS, stack, selected_command, args, index,
                   output, exit_code>>

\* Return with the child's result dropped by the enclosing Select
\* (let _ = widget.run(..); Ok(()) instead of NUM_RUNS..; widget.run(..))
ReturnDiscardsError ==
    /\ pc = "return" /\ Len(stack) > 0
    /\ stack' = SubSeq(stack, 1, Len(stack) - 1)
    /\ result' = IF Len(stack) > 1 THEN "Ok" ELSE result
    /\ UNCHANGED <<environment, is_abort, backends, NUM_RUNS, pc, selected_command, args, index,
                   output, exit_code, log>>

\* a call of Action::run returns its result to the call that made it
Return ==
    /\ pc = "return" /\ Len(stack) > 0
    /\ stack' = SubSeq(stack, 1, Len(stack) - 1)
    /\ UNCHANGED <<environment, is_abort, backends, NUM_RUNS, pc, selected_command, args, index,
                   output, result, exit_code, log>>

\* MainExit with the status of the launched command as the exit code
MainExitReflectsStatus ==
    /\ pc = "return" /\ Len(stack) = 0
    /\ Exit(IF result = "Ok"
            THEN IF Len(log) >= 1 /\ log[Len(log)].kind = "run_shell"
                 THEN log[Len(log)].value[1] ELSE 0
            ELSE EXIT_ERROR)
    /\ UNCHANGED <<environment, is_abort, backends, NUM_RUNS, stack, selected_command, args, index,
                   output, result, log>>

\* main: Ok(()) => {}, Err(err) => { println!(..); process::exit(1) }
MainExit ==
    /\ pc = "return" /\ Len(stack) = 0
    /\ Exit(IF result = "Ok" THEN 0 ELSE EXIT_ERROR)
    /\ UNCHANGED <<environment, is_abort, backends, NUM_RUNS, stack, selected_command, args, index,
                   output, result, log>>

Next ==
    \/ Main
    \/ SelectPreselection
    \/ SelectPicker
    \/ SelectDispatch
    \/ CommandBegin
    \/ WidgetFreeText
    \/ WidgetCapture
    \/ WidgetPicker
    \/ CommandRunShell
    \/ Return
    \/ MainExit

Spec == Init /\ [][Next]_vars

\* every picker, prompt and shell call is a blocking call that returns, and
\* the single thread goes on to its next statement: a step that can be
\* taken is taken
SpecLive == InitLive /\ [][Next]_vars /\ WF_vars(Next)

SpecShell == InitShell /\ [][Next]_vars

SpecOptions == InitOptions /\ [][Next]_vars


(***************************************************************************)
(* Properties                                                              *)
(***************************************************************************)
Last == log[Len(log)]

\* the calls of the collaborators: pickers, prompt, shell
CallKinds == {"select_picker", "widget_picker", "prompt", "capture", "run_shell"}

\* the call has come back into the engine and been acted on
Returned == pc \in {"return", "exit"}

\* C1: a run launches at most one interactive command (run_shell), and the
\* launch is the last step the engine takes: no picker, prompt or shell call
\* follows it, and the call of Action::run that made it is returning.
C1_AtMostOneRunShellAndLast ==
    \A i \in 1..Len(log) :
        log[i].kind = "run_shell" =>
            /\ i = Len(log)
            /\ Returned
            /\ \A j \in 1..Len(log) : log[j].kind = "run_shell" => j = i

\* a run through a submenu and two widgets that launched its command
C1_Witness ==
    /\ Len(log) >= 4
    /\ Last.kind = "run_shell"
    /\ Last.depth = 2
    /\ pc = "exit"

\* C2: once the picker of a FromCommand widget has returned none, the
\* Command returns Ok: that picker call is the last call of the run (no later
\* capture, prompt, picker or launch), and the process ends with code 0.
C2_WidgetCancelReturnsOk ==
    \A i \in 1..Len(log) :
        (log[i].kind = "widget_picker" /\ log[i].outcome = "none") =>
            /\ i = Len(log)
            /\ Returned
            /\ result = "Ok"
            /\ Len(args) = log[i].step
            /\ pc = "exit" => exit_code = 0

\* the picker of the third widget returned none and the process has ended
C2_Witness ==
    /\ Len(log) >= 1
    /\ Last.kind = "widget_picker" /\ Last.outcome = "none"
    /\ Last.step = 2
    /\ pc = "exit"

\* C3: once the picker of a Select has returned none, that Select returns
\* Ok: no child is entered (the stack does not grow, NUM_RUNS keeps its
\* value), no further call is made, every enclosing call returns Ok and the
\* process ends with code 0.
C3_SelectCancelReturnsOk ==
    \A i \in 1..Len(log) :
        (log[i].kind = "select_picker" /\ log[i].outcome = "none") =>
            /\ i = Len(log)
            /\ NUM_RUNS = log[i].runs
            /\ Len(stack) <= log[i].depth + 1
            /\ pc \in {"dispatch", "return", "exit"}
            /\ pc # "dispatch" => result = "Ok"
            /\ pc = "exit" => exit_code = 0

\* the picker of a submenu returned none and the process has ended
C3_Witness ==
    /\ Len(log) >= 2
    /\ Last.kind = "select_picker" /\ Last.outcome = "none"
    /\ Last.depth = 1
    /\ pc = "exit"


\* The substitution the specification describes: every placeholder {k} of
\* the template itself, 0 <= k < n, replaced by the k-th argument, in one
\* pass over the template; the inserted values are not scanned again.
RECURSIVE SimultaneousSubstitution(_, _, _)
SimultaneousSubstitution(template, as, n) ==
    IF Len(template) = 0 THEN <<>>
    ELSE LET hits == { k \in 0..(n - 1) :
                        /\ Len(template) >= Len(Placeholder(k))
                        /\ SubSeq(template, 1, Len(Placeholder(k))) = Placeholder(k) }
         IN  IF hits # {}
             THEN LET k == CHOOSE h \in hits : TRUE
                  IN  as[k + 1] \o SimultaneousSubstitution(
                          SubSeq(template, Len(Placeholder(k)) + 1, Len(template)), as, n)
             ELSE <<template[1]>> \o SimultaneousSubstitution(Tail(template), as, n)

\* the call of Action::run that made the last call of the log is still the
\* innermost one, so self, args and index are those of that call
LastCallIsInnermost == Len(log) >= 1 /\ Len(stack) = Last.depth + 1

\* C4: the command line launched after the n widgets of a Command is the
\* Command's template with every placeholder {k}, k < n, replaced by the
\* k-th collected argument and every other placeholder left as it stands
\* (with no widgets: the template itself).
C4_FinalSubstitution ==
    (LastCallIsInnermost /\ Last.kind = "run_shell") =>
        Last.text = SimultaneousSubstitution(self.command, args, Len(self.widgets))

\* C5: the command line captured for the FromCommand widget of step i is the
\* widget's template with the placeholders {0}..{i-1} replaced by the
\* arguments collected so far and every placeholder {j}, j >= i, left as it
\* stands.
C5_WidgetSubstitution ==
    (LastCallIsInnermost /\ Last.kind = "capture") =>
        Last.text = SimultaneousSubstitution(
                        self.widgets[Last.step + 1].command, args, Last.step)

T_echo_y == <<"e", "c", "h", "o", " ", "y">>

\* C6: with the configuration whose only option "deploy" is the Command
\* "echo {0}" with one FromCommand widget and with --command deploy, the
\* root makes no picker call; there is at most one capture and one widget
\* picker call; and once the picker has returned "y" the next and last
\* call launches exactly "echo y".
C6_EndToEnd ==
    (config = CfgDeploy /\ handler.command = Some(T_deploy)) =>
        /\ \A i \in 1..Len(log) : log[i].kind # "select_picker"
        /\ \A i \in 1..Len(log) :
            /\ log[i].kind = "capture" => i = 2 /\ log[i].text = T_printf
            /\ log[i].kind = "widget_picker" => i = 3
            /\ log[i].kind = "run_shell" => i = 4
        /\ (/\ Len(log) >= 3
            /\ log[3].kind = "widget_picker"
            /\ log[3].outcome = "some" /\ log[3].value = T_y
            /\ Returned)
            => /\ Len(log) = 4
               /\ log[4].kind = "run_shell"
               /\ log[4].text = T_echo_y

\* the end-to-end run has launched "echo y" and ended with code 0
C6_Witness ==
    /\ config = CfgDeploy /\ handler.command = Some(T_deploy)
    /\ Len(log) = 4
    /\ log[2].kind = "capture" /\ log[3].kind = "widget_picker"
    /\ log[3].value = T_y
    /\ log[4].kind = "run_shell" /\ log[4].text = T_echo_y
    /\ pc = "exit" /\ exit_code = 0


\* the ways a Select obtains its choice
SelectKinds == {"preselection", "jaime_error", "select_picker"}

\* C7: --command stands in for a picker call at most once, and only at the
\* first Select (the root, NUM_RUNS = 0): every Select resolved after a
\* recursion (NUM_RUNS > 0, any deeper level) asks the picker.
C7_PreselectionOnlyAtFirstSelect ==
    /\ \A i \in 1..Len(log) :
        log[i].kind \in {"preselection", "jaime_error"} =>
            /\ i = 1 /\ log[i].runs = 0 /\ log[i].depth = 0
    /\ \A i \in 1..Len(log) :
        (log[i].kind \in SelectKinds /\ (log[i].runs > 0 \/ log[i].depth > 0)) =>
            log[i].kind = "select_picker"

\* with --command A the root took A without a picker, and the submenu A,
\* which has a child A too, asked the picker
C7_Witness ==
    /\ handler.command = Some(T_A)
    /\ Len(log) >= 2
    /\ log[1].kind = "preselection"
    /\ log[2].kind = "select_picker" /\ log[2].runs = 1 /\ log[2].depth = 1
    /\ log[2].outcome = "some"
    /\ T_A \in DOMAIN stack[1].options[T_A].options

\* --command names no child of the root
InvalidPreselection ==
    has_command /\ Unwrap(handler.command) \notin DOMAIN config.options

\* C8: when --command equals no child label of the root, the process ends
\* at the root with a non-zero exit code, and no picker, prompt or shell call
\* (captured or interactive) is ever made.
C8_InvalidPreselectionExits ==
    InvalidPreselection =>
        /\ \A i \in 1..Len(log) : log[i].kind \notin CallKinds
        /\ Len(stack) <= 1
        /\ pc \in {"main", "run", "exit"}
        /\ pc = "exit" => (exit_code # 0 /\ Last.kind = "jaime_error")

\* an invalid --command against a root with several children has ended the
\* process
C8_Witness ==
    /\ InvalidPreselection
    /\ Cardinality(DOMAIN config.options) >= 2
    /\ pc = "exit" /\ exit_code = EXIT_INVALID
    /\ Len(log) = 1

BeforeFirstColon(s) ==
    LET colons == {i \in 1..Len(s) : s[i] = ":"}
    IN  IF colons = {} THEN s
        ELSE SubSeq(s, 1, (CHOOSE i \in colons : \A j \in colons : i <= j) - 1)

\* the root has taken --command as its choice and acted on it
PreselectionDispatched ==
    Len(log) >= 1 /\ log[1].kind = "preselection" /\ ~(Len(log) = 1 /\ pc = "dispatch")

SpecEntry(node, k) ==
    IF IsSome(node.options[k].description)
    THEN k \o <<":", " ">> \o Unwrap(node.options[k].description)
    ELSE k

\* C10: the candidate list a Select gives the picker has one entry per
\* child, in the order of the configuration document, each the label
\* followed by ": " and the child's description when it has one (as
\* displayed, escape sequences aside).
C10_CandidatesInInsertionOrder ==
    \A i \in 1..Len(log) :
        (log[i].kind = "select_picker" /\ Len(stack) > log[i].depth) =>
            LET node == stack[log[i].depth + 1]
                shown == SplitLines(log[i].text)
            IN  /\ Len(shown) = Len(node.order)
                /\ \A j \in 1..Len(shown) :
                    StripAnsi(shown[j]) = SpecEntry(node, node.order[j])

\* the last picker call was a Select's, it returned a line, and the Select
\* has acted on it
PickedAndDispatched ==
    /\ Len(log) >= 1
    /\ Last.kind = "select_picker" /\ Last.outcome = "some"
    /\ pc # "dispatch"
    /\ Len(stack) > Last.depth

\* C11: when the picker returns "K: D" for a child K of the Select whose
\* label has no colon and whose description is D (with or without colons),
\* the key recovered by the split on the first colon is K and resolution
\* recurses into the child stored under K.
C11_FirstColonRecoversKey ==
    PickedAndDispatched =>
        LET node == stack[Last.depth + 1]
        IN  \A K \in DOMAIN node.options :
                (/\ ~Contains(K, ":")
                 /\ IsSome(node.options[K].description)
                 /\ Last.value = K \o <<":", " ">> \o Unwrap(node.options[K].description)) =>
                    /\ RecoverKey(Last.value) = K
                    /\ NUM_RUNS = Last.runs + 1
                    /\ Len(stack) >= Last.depth + 2
                    /\ stack[Last.depth + 2] = node.options[K]

\* the picker returned "A: d:e", a description with a colon, and the child A
\* is entered
C11_Witness ==
    /\ PickedAndDispatched
    /\ Last.depth = 0
    /\ Last.value = T_A \o <<":", " ">> \o T_d_e
    /\ Len(stack) = 2
    /\ stack[2] = config.options[T_A]

\* the calls of the pickers
PickerKinds == {"select_picker", "widget_picker"}

\* the calls of the shell executor
ShellKinds == {"capture", "run_shell"}

\* C12: once cancellation has been requested (the only request the code can
\* observe is the abort of a picker call), the engine, before it acts on the
\* picker's result, ends the process with the reserved exit code, and no
\* shell execution, captured or interactive, follows the request.
C12_CancellationTerminates ==
    is_abort =>
        /\ pc = "exit"
        /\ exit_code = EXIT_ABORT
        /\ Last.kind \in PickerKinds

\* C13: whichever back-end is selected, an explicit user abort comes back to
\* the engine as "none", and the run ends Ok with exit status 0 and with no
\* call after the aborted picker.
C13_AbortIsNoneForEveryBackend ==
    is_abort =>
        /\ Last.kind \in PickerKinds
        /\ Last.outcome = "none"
        /\ pc = "exit" => (result = "Ok" /\ exit_code = 0)

\* the errors of readline()
PromptErrors == {"Interrupted", "EOF", "ReadlineError"}

\* C14: when the prompt of a FreeText widget fails, the Command returns that
\* error: nothing is appended to the argument list, no later widget runs and
\* the final template is not executed (the failed prompt is the last call).
C14_PromptFailureAbortsCommand ==
    \A i \in 1..Len(log) :
        (log[i].kind = "prompt" /\ log[i].outcome \in PromptErrors) =>
            /\ i = Len(log)
            /\ Returned
            /\ result = log[i].outcome
            /\ Len(args) = log[i].step

\* the second prompt of a Command with three widgets met end of input, and
\* the process has ended
C14_Witness ==
    /\ Len(log) >= 2
    /\ Last.kind = "prompt" /\ Last.outcome = "EOF" /\ Last.step = 1
    /\ config = CfgWidgets
    /\ Len(args) = 1
    /\ pc = "exit" /\ exit_code = EXIT_ERROR

\* the errors of the shell executor
ShellErrors == {"SpawnFailure", "DecodeFailure"}

\* C15: a failed prompt, a shell that cannot be spawned and a capture that
\* cannot be decoded each end the session: the failure is the last call the
\* engine makes, it is the result of every enclosing call of Action::run up
\* to main, and the process exits with a non-zero status.
C15_FailurePropagatesToTopLevel ==
    \A i \in 1..Len(log) :
        (log[i].outcome \in PromptErrors \cup ShellErrors) =>
            /\ i = Len(log)
            /\ Returned
            /\ result = log[i].outcome
            /\ pc = "exit" => exit_code # 0

\* a capture two Selects deep could not be spawned; the error went through
\* both Selects and the process has exited with status 1
C15_Witness ==
    /\ Len(log) >= 1
    /\ Last.kind = "capture" /\ Last.outcome = "SpawnFailure" /\ Last.depth = 2
    /\ result = "SpawnFailure"
    /\ pc = "exit" /\ exit_code = EXIT_ERROR

\* C16: when the launched command was spawned, whatever its exit status,
\* Action::run returns Ok and the process exits with status 0; when it could
\* not be spawned the run returns the error.
C16_ChildStatusNotReflected ==
    \A i \in 1..Len(log) :
        log[i].kind = "run_shell" =>
            /\ Returned
            /\ log[i].outcome = "ok" =>
                (result = "Ok" /\ (pc = "exit" => exit_code = 0))
            /\ log[i].outcome # "ok" =>
                (log[i].outcome = "SpawnFailure" /\ result = "SpawnFailure"
                 /\ (pc = "exit" => exit_code # 0))

\* the launched command exited with status 1 and the process exited with 0
C16_Witness ==
    /\ Len(log) >= 1
    /\ Last.kind = "run_shell" /\ Last.outcome = "ok" /\ Last.value = <<1>>
    /\ result = "Ok"
    /\ pc = "exit" /\ exit_code = 0

\* the process has ended, and the last step says how
Exited == pc = "exit" /\ Len(log) >= 1

C18_AbortAndInvalidCodesDiffer ==
    Exited =>
        /\ Last.outcome = "abort" => exit_code \notin {0, EXIT_INVALID}
        /\ Last.outcome = "invalid" => exit_code \notin {0, EXIT_ABORT}

\* the embedded picker was aborted in a widget and the process has exited
\* with the abort code
C18_Witness ==
    /\ Exited
    /\ Last.kind = "widget_picker" /\ Last.outcome = "abort"
    /\ exit_code = EXIT_ABORT
    /\ EXIT_ABORT # EXIT_INVALID

\* the name of a shell given by name or by path: the text after the last /
Basename(path) ==
    LET slashes == {i \in 1..Len(path) : path[i] = "/"}
    IN  IF slashes = {} THEN path
        ELSE SubSeq(path, (CHOOSE i \in slashes : \A j \in slashes : j <= i) + 1, Len(path))

\* the strict-mode flags of a shell family, none for the other shells
StrictModeFlags(family) ==
    IF family = T_zsh THEN <<"--shwordsplit", "--no-unset", "--errexit">>
    ELSE IF family = T_bash THEN <<"-e", "-u">>
    ELSE <<>>

\* C19: the captured and the interactive executor both run the effective
\* shell (shell: of the configuration, else SHELL, else sh) with the
\* strict-mode flags of its family before -c <command> when the shell is a
\* zsh or a bash, given by name or by path such as /bin/zsh, and with no
\* flag before -c for every other shell.
C19_StrictModeFlagsByFamily ==
    \A i \in 1..Len(log) :
        log[i].kind \in ShellKinds =>
            /\ log[i].argv.program = Shell
            /\ log[i].argv.c = log[i].text
            /\ log[i].argv.flags = StrictModeFlags(Basename(log[i].argv.program))

\* C20: when the output captured for a FromCommand is not valid text, the
\* capture is an error: no picker is asked for that step (the capture is the
\* last call), nothing is appended to the argument list, the Command returns
\* the error and the final template is not executed.
C20_DecodeFailureIsError ==
    \A i \in 1..Len(log) :
        (log[i].kind = "capture" /\ log[i].outcome = "DecodeFailure") =>
            /\ i = Len(log)
            /\ \A j \in 1..Len(log) : log[j].kind # "run_shell"
            /\ pc # "pick"
            /\ Returned
            /\ result = "DecodeFailure"
            /\ Len(args) = log[i].step

\* the capture of the third widget, after two prompts, was not valid text
\* and the Command has returned the error
C20_Witness ==
    /\ Len(log) >= 3
    /\ Last.kind = "capture" /\ Last.outcome = "DecodeFailure" /\ Last.step = 2
    /\ Len(args) = 2
    /\ pc = "return" /\ result = "DecodeFailure"

\* the calls a Command makes: its widgets' and the launch
CommandKinds == {"prompt", "capture", "widget_picker", "run_shell"}

\* the call logged at position i completed widget step log[i].step: a value
\* was appended for it
StepCompleted(i) ==
    \/ log[i].kind = "prompt" /\ log[i].outcome = "ok"
    \/ log[i].kind = "widget_picker" /\ log[i].outcome = "some"

\* C21: within one Command the widgets run in declared order: the first call
\* is step 0's, a capture is followed by the picker of the same step, the
\* call after a completed step i is step i+1's, every call is of the kind of
\* the widget declared at its step, and the launch comes after the last
\* widget has completed.
C21_WidgetsInDeclaredOrder ==
    \A i \in 1..Len(log) :
        (log[i].kind \in CommandKinds /\ Len(stack) > log[i].depth) =>
            LET widgets == stack[log[i].depth + 1].widgets
                s == log[i].step
            IN  /\ (i = 1 \/ log[i - 1].kind \notin CommandKinds) => s = 0
                /\ (i > 1 /\ log[i - 1].kind = "capture") =>
                        (log[i].kind = "widget_picker" /\ s = log[i - 1].step)
                /\ (i > 1 /\ log[i - 1].kind \in CommandKinds /\ log[i - 1].kind # "capture") =>
                        (StepCompleted(i - 1) /\ s = log[i - 1].step + 1
                         /\ log[i].kind # "widget_picker")
                /\ log[i].kind = "run_shell" => s = Len(widgets)
                /\ log[i].kind = "prompt" =>
                        (s < Len(widgets) /\ widgets[s + 1].type = "FreeText")
                /\ log[i].kind \in {"capture", "widget_picker"} =>
                        (s < Len(widgets) /\ widgets[s + 1].type = "FromCommand")

\* the launch of a Command with three widgets, after two prompts, a capture
\* and the picker over it
C21_Witness ==
    /\ Len(log) >= 5
    /\ Last.kind = "run_shell" /\ Last.step = 3
    /\ log[Len(log) - 1].kind = "widget_picker" /\ log[Len(log) - 1].step = 2
    /\ log[Len(log) - 2].kind = "capture" /\ log[Len(log) - 2].step = 2
    /\ log[Len(log) - 3].kind = "prompt" /\ log[Len(log) - 3].step = 1
    /\ log[Len(log) - 4].kind = "prompt" /\ log[Len(log) - 4].step = 0

\* C22: when the key recovered from the line the picker returned is not a
\* child label of the Select, the Select's resolution fails: it returns an
\* error, not success.
C22_ChildNotFoundIsError ==
    (PickedAndDispatched
     /\ RecoverKey(Last.value) \notin DOMAIN stack[Last.depth + 1].options) =>
        (Returned /\ result # "Ok")

\* the entry of child k with the suffix only for a non-empty description
NonEmptyDescriptionEntry(node, k) ==
    IF IsSome(node.options[k].description) /\ Unwrap(node.options[k].description) # <<>>
    THEN k \o <<":", " ">> \o Unwrap(node.options[k].description)
    ELSE k

\* C23: in the candidate list of a Select, whatever its order, the entry of
\* a child is its label followed by ": " and the description when the child
\* has a non-empty description, and the bare label otherwise, also when the
\* description is present but empty (escape sequences aside).
C23_SuffixOnlyForNonEmptyDescription ==
    \A i \in 1..Len(log) :
        (log[i].kind = "select_picker" /\ Len(stack) > log[i].depth) =>
            LET node == stack[log[i].depth + 1]
                shown == SplitLines(log[i].text)
            IN  /\ Len(shown) = Len(node.order)
                /\ \A k \in DOMAIN node.options :
                    \E j \in 1..Len(shown) :
                        StripAnsi(shown[j]) = NonEmptyDescriptionEntry(node, k)

RECURSIVE SplitCommaSpace(_)
\* the pieces of a text between its occurrences of ", " (one piece, the
\* text itself, when there is none; an empty last piece after a trailing one)
SplitCommaSpace(s) ==
    LET seps == {i \in 1..(Len(s) - 1) : s[i] = "," /\ s[i + 1] = " "}
    IN  IF seps = {} THEN <<s>>
        ELSE LET first == CHOOSE i \in seps : \A j \in seps : i <= j
             IN  <<SubSeq(s, 1, first - 1)>>
                 \o SplitCommaSpace(SubSeq(s, first + 2, Len(s)))

\* C24: the list of keys in the invalid-preselection message, escape
\* sequences aside, is the child labels of the root separated by ", ": every
\* label once, nothing that is not a label, and no separator after the last.
C24_MessageListsEveryLabelOnce ==
    \A i \in 1..Len(log) :
        log[i].kind = "jaime_error" =>
            LET listed == SplitCommaSpace(StripAnsi(log[i].text))
            IN  /\ Len(listed) = Cardinality(DOMAIN config.options)
                /\ \A k \in DOMAIN config.options :
                    Cardinality({j \in 1..Len(listed) : listed[j] = k}) = 1
                /\ \A j \in 1..Len(listed) : listed[j] \in DOMAIN config.options

\* an invalid --command against the root with the three labels a:b, a and
\* c:d, in colour, has printed its message
C24_Witness ==
    /\ Len(log) = 1 /\ Last.kind = "jaime_error"
    /\ config = CfgColon /\ colorize
    /\ Len(SplitCommaSpace(StripAnsi(Last.text))) = 3
    /\ pc = "exit"

\* the positions of the log at which a widget step completed
CompletedSteps == {i \in 1..Len(log) : StepCompleted(i)}

\* C25: the argument list is empty when a Command starts and has one entry
\* per completed widget: exactly i entries when step i starts (its prompt,
\* its capture or its picker), and exactly n, the number of widgets, when
\* the final template is substituted and launched.
C25_ArgumentListLength ==
    /\ Len(args) = Cardinality(CompletedSteps)
    /\ \A i \in CompletedSteps : args[log[i].step + 1] = log[i].value
    /\ pc \in {"widget", "pick"} =>
        /\ Len(args) = index
        /\ index <= Len(self.widgets)
        /\ pc = "pick" => index < Len(self.widgets)
        /\ (index = 0 /\ pc = "widget") => args = <<>>
    /\ \A i \in 1..Len(log) :
        /\ log[i].kind \in {"prompt", "capture", "widget_picker"} =>
                Cardinality({j \in CompletedSteps : j < i}) = log[i].step
        /\ (log[i].kind = "run_shell" /\ Len(stack) > log[i].depth) =>
                Len(args) = Len(stack[log[i].depth + 1].widgets)

\* the third widget of a Command is about to start with two arguments
\* collected
C25_Witness ==
    /\ pc = "widget" /\ index = 2
    /\ Len(self.widgets) = 3
    /\ Len(args) = 2

\* some argument a_j of the first m carries the placeholder text {k} of a
\* later one, j < k < m
CarriesLaterPlaceholder(as, m) ==
    \E j \in 0..(m - 1) : \E k \in (j + 1)..(m - 1) :
        \E p \in 1..Len(as[j + 1]) :
            /\ p + Len(Placeholder(k)) - 1 <= Len(as[j + 1])
            /\ SubSeq(as[j + 1], p, p + Len(Placeholder(k)) - 1) = Placeholder(k)

\* C26: collected values are inserted verbatim: when an argument a_j carries
\* the placeholder text {k} of a later argument, the command line handed to
\* the shell, for a capture as for the launch, is still the simultaneous
\* substitution on the original template, with that text unchanged in it.
C26_ValuesInsertedVerbatim ==
    LastCallIsInnermost =>
        /\ (Last.kind = "run_shell" /\ CarriesLaterPlaceholder(args, Len(args))) =>
                Last.text = SimultaneousSubstitution(self.command, args, Len(args))
        /\ (Last.kind = "capture" /\ CarriesLaterPlaceholder(args, Last.step)) =>
                Last.text = SimultaneousSubstitution(
                                self.widgets[Last.step + 1].command, args, Last.step)

\* the embedded skim library is the back-end
EmbeddedBackend == ~handler.fzf /\ ~handler.skim

\* C27: with the embedded back-end, once the user has aborted a picker call,
\* at any depth and at any widget step, the process has exited with code
\* 130 from inside that call: the call is the last of the log, the call of
\* Action::run that made it has not returned, and nothing is launched.
C27_EmbeddedAbortExits130 ==
    (EmbeddedBackend /\ is_abort) =>
        /\ Last.kind \in PickerKinds /\ Last.outcome = "abort"
        /\ pc = "exit" /\ exit_code = 130
        /\ Len(stack) = Last.depth + 1
        /\ \A i \in 1..Len(log) : log[i].kind # "run_shell"

\* the embedded picker of a widget, two Selects deep, was aborted
C27_Witness ==
    /\ EmbeddedBackend /\ is_abort
    /\ Last.kind = "widget_picker" /\ Last.depth = 2
    /\ pc = "exit" /\ exit_code = 130

\* the calls of the embedded picker in the log
EmbeddedCalls == {i \in 1..Len(log) : log[i].kind \in PickerKinds /\ log[i].options # <<>>}

\* the option opt is given by a token of the option string: the token
\* --opt itself or a token --opt=value
HasOptionToken(tokens, opt) ==
    \E i \in 1..Len(tokens) :
        \/ tokens[i] = opt
        \/ /\ Len(tokens[i]) > Len(opt)
           /\ SubSeq(tokens[i], 1, Len(opt) + 1) = opt \o <<"=">>

\* C28: for every call of the embedded picker, a field whose option is given
\* by no token of the option string has its fixed default (height 50%,
\* margin 0%, layout default, color the built-in theme), and a toggle whose
\* token is not present is false.
C28_DefaultsWhenOptionAbsent ==
    \A i \in EmbeddedCalls :
        LET o == log[i].options[1]
        IN  /\ ~HasOptionToken(skim_args, O_height) => o.height = T_50pc
            /\ ~HasOptionToken(skim_args, O_margin) => o.margin = T_0pc
            /\ ~HasOptionToken(skim_args, O_layout) => o.layout = T_default
            /\ ~HasOptionToken(skim_args, O_color) => o.color = T_default_theme
            /\ ~HasOptionToken(skim_args, O_reverse) => ~o.reverse
            /\ ~HasOptionToken(skim_args, O_tac) => ~o.tac
            /\ ~HasOptionToken(skim_args, O_no_sort) => ~o.nosort
            /\ ~HasOptionToken(skim_args, O_inline_info) => ~o.inline_info

\* C29: the derivation of the embedded picker's options is total: for every
\* option string, also one that ends in a bare --height, --margin, --layout
\* or --color, every field gets a value and the token list is not read past
\* its end (the picker call does not panic).
C29_OptionDerivationTotal ==
    \A i \in EmbeddedCalls :
        /\ log[i].outcome # "panic"
        /\ OutOfBounds \notin {log[i].options[1].height, log[i].options[1].margin,
                              log[i].options[1].layout, log[i].options[1].color}

\* the calls of the shell executor in the log
ShellCalls == {i \in 1..Len(log) : log[i].kind \in ShellKinds}

\* C30: every captured and every interactive execution of a run spawns the
\* shell the configuration names when it names one, otherwise the value of
\* SHELL when it is set, otherwise sh; all the executions of the run, at
\* whatever node, spawn the same shell.
C30_ShellSelection ==
    /\ \A i \in ShellCalls :
        /\ config_shell # None => log[i].argv.program = config_shell[1]
        /\ (config_shell = None /\ env_SHELL # None) =>
                log[i].argv.program = env_SHELL[1]
        /\ (config_shell = None /\ env_SHELL = None) =>
                log[i].argv.program = <<"s", "h">>
    /\ \A i, j \in ShellCalls : log[i].argv.program = log[j].argv.program

\* with fish configured and SHELL set to /bin/zsh, a capture and the launch,
\* two Selects deep, both ran fish
C30_Witness ==
    /\ config_shell = Some(T_fish) /\ env_SHELL = Some(T_bin_zsh)
    /\ Len(log) >= 3
    /\ Last.kind = "run_shell" /\ Last.depth = 2 /\ Last.argv.program = T_fish
    /\ \E i \in ShellCalls : log[i].kind = "capture" /\ log[i].argv.program = T_fish

\* C31: every picker call of a Select is made with no preview, and every
\* picker call of a FromCommand widget is made with the preview of that
\* widget as the configuration gives it (none when it gives none): no {j}
\* of it is replaced, whatever the arguments collected before.
C31_PreviewPassedUnmodified ==
    \A i \in 1..Len(log) :
        /\ log[i].kind = "select_picker" => log[i].preview = None
        /\ (log[i].kind = "widget_picker" /\ Len(stack) > log[i].depth) =>
                log[i].preview = stack[log[i].depth + 1].widgets[log[i].step + 1].preview

\* the picker of the third widget was given the preview "p {} {0}" after
\* "foo" had been collected as argument 0
C31_Witness ==
    /\ Len(log) >= 1
    /\ Last.kind = "widget_picker" /\ Last.step = 2
    /\ Last.preview = Some(T_preview)
    /\ Len(args) >= 2 /\ args[1] = T_foo

\* the function the command line selects: fzf when --fzf is given, also
\* together with --skim-binary; else sk when --skim-binary is given; else
\* the embedded library
SelectedBackend ==
    CASE handler.fzf -> "display_selector_fzf"
      [] ~handler.fzf /\ handler.skim -> "display_selector_skim"
      [] OTHER -> "display_selector"

\* the positions of the log that are picker calls, in order
PickerCalls == SelectSeq([i \in 1..Len(log) |-> i], LAMBDA i : log[i].kind \in PickerKinds)

\* C32: every picker call of a run, of a Select or of a widget, goes to the
\* one back-end the command line selects: fzf before sk before the embedded
\* library.
C32_BackendFixedForRun ==
    /\ Len(backends) = Len(PickerCalls)
    /\ \A i \in 1..Len(backends) : backends[i] = SelectedBackend

\* with --fzf and --skim-binary both given, a Select's call and then a
\* widget's call both went to the fzf binary
C32_Witness ==
    /\ handler.fzf /\ handler.skim
    /\ Len(backends) >= 2
    /\ log[PickerCalls[Len(PickerCalls)]].kind = "widget_picker"
    /\ log[PickerCalls[1]].kind = "select_picker"
    /\ \A i \in 1..Len(backends) : backends[i] = "display_selector_fzf"

RECURSIVE Depth(_)
\* the number of Selects on the longest path of a tree
Depth(node) ==
    IF node.type = "Select"
    THEN LET below == {Depth(node.options[k]) : k \in DOMAIN node.options}
         IN  1 + (IF below = {} THEN 0
                  ELSE CHOOSE d \in below : \A e \in below : e <= d)
    ELSE 0

\* the picker calls made for Selects so far
SelectPickerCalls == {i \in 1..Len(log) : log[i].kind = "select_picker"}

\* each Select on the stack has made at most one picker call, and the calls
\* of Action::run are nested no deeper than the tree
OnePickerCallPerSelect ==
    /\ Cardinality(SelectPickerCalls) <= Depth(config)
    /\ \A i, j \in SelectPickerCalls : log[i].depth = log[j].depth => i = j
    /\ NUM_RUNS <= Depth(config)
    /\ Len(stack) <= Depth(config) + 1

\* C33: when every picker, prompt and shell call returns, resolution
\* finishes: the process exits (after Ok, after an error, or from inside a
\* call); and each Select makes at most one picker call and at most one
\* recursive call, so a run makes at most as many Select-level picker calls
\* as the tree is deep.
C33_ResolutionTerminates ==
    /\ <>(pc = "exit")
    /\ []OnePickerCallPerSelect

\* a run over the tree of depth 2 has made two Select-level picker calls and
\* ended
C33_Witness ==
    /\ Depth(config) = 2
    /\ Cardinality(SelectPickerCalls) = 2
    /\ pc = "exit"

=============================================================================
